---- MODULE Spec2Model ----
(***************************************************************************)
(* Model of the phtm marker-type catalog (src/lib.rs).                     *)
(*                                                                         *)
(* The crate is a table of type aliases around PhantomData.  The model     *)
(* keeps each alias as the type expression the source writes, and computes *)
(* what a downstream crate observes about a container that embeds one      *)
(* marker field: whether one instantiation of the container is accepted    *)
(* where another is expected (subtyping, hence variance), whether it may   *)
(* be transferred to / shared with another thread (Send / Sync), whether   *)
(* dropping it passes the drop check, and how large it is.  All four are   *)
(* computed structurally over the expanded type, the way the compiler      *)
(* derives them from the fields of a type.                                 *)
(***************************************************************************)
EXTENDS Integers, Sequences, FiniteSets, TLC

\* Number of distinct lifetimes; a larger number is a longer lifetime.
NumLifetimes == 2

Lifetimes == 1..NumLifetimes

\* Placeholder in the lt slot of a type expression with no lifetime.
NoLt == NumLifetimes + 1

\* 'long: 'short
Outlives(long, short) == long >= short

\* Size and alignment of a pointer-sized value, in bytes, on the target the
\* downstream crate is built for; the catalog does not fix it.
PtrSize == 8

(***************************************************************************)
(* Type expressions: [tag, lt, sub], sub the sequence of type arguments.   *)
(***************************************************************************)
Ty(tag, lt, sub) == [tag |-> tag, lt |-> lt, sub |-> sub]

Unit == Ty("Unit", NoLt, <<>>)

U8 == Ty("U8", NoLt, <<>>)

Ref(a, T) == Ty("Ref", a, <<T>>)

RefMut(a, T) == Ty("RefMut", a, <<T>>)

PtrConst(T) == Ty("PtrConst", NoLt, <<T>>)

PtrMut(T) == Ty("PtrMut", NoLt, <<T>>)

\* fn(params...) -> ret ; sub[1] is the return type, the rest the parameters
Fn(params, ret) == Ty("Fn", NoLt, <<ret>> \o params)

Cell(T) == Ty("Cell", NoLt, <<T>>)

Rc(T) == Ty("Rc", NoLt, <<T>>)

Box(T) == Ty("Box", NoLt, <<T>>)

Option(T) == Ty("Option", NoLt, <<T>>)

PhantomData(T) == Ty("PhantomData", NoLt, <<T>>)

\* struct Inspector<'a>(&'a u8), with a Drop impl reading the reference
Inspector(a) == Ty("Inspector", a, <<Ref(a, U8)>>)

\* A struct with the given field types and no Drop impl of its own
Struct(fields) == Ty("Struct", NoLt, fields)

\* struct World<'a> { inspector: Option<MyBox<..>>, days: Box<u8> }
\* around a MyBox with the given fields
World(fields) == Struct(<<Option(Struct(fields)), Box(U8)>>)

(***************************************************************************)
(* The catalog: every alias as written in the source.                      *)
(***************************************************************************)
Owns(T) == PhantomData(T)

\* Variant: the reference itself instead of a phantom of it
ImmutablyReferences_Held(a, T) == Ref(a, T)

ImmutablyReferences(a, T) == PhantomData(Ref(a, T))

MutablyReferences(a, T) == PhantomData(RefMut(a, T))

\* Variant: the fn-pointer encoding of covariance instead of *const T
HasImmPtrTo_AsFn(T) == PhantomData(Fn(<<>>, T))

HasImmPtrTo(T) == PhantomData(PtrConst(T))

\* Variant: *const T instead of *mut T
HasMutPtrTo_AsConst(T) == PhantomData(PtrConst(T))

HasMutPtrTo(T) == PhantomData(PtrMut(T))

\* Variant: the owning encoding instead of fn() -> T
CovariantOver_Owning(T) == PhantomData(T)

CovariantOver(T) == PhantomData(Fn(<<>>, T))

\* Variant: T in return position instead of argument position
ContravariantOver_AsReturn(T) == PhantomData(Fn(<<>>, T))

ContravariantOver(T) == PhantomData(Fn(<<T>>, Unit))

CovariantOverLt(co) == PhantomData(ContravariantOver(Ref(co, Unit)))

ContraVariantOverLt(contra) == ContravariantOver(Ref(contra, Unit))

\* Variant: invariance through Cell<T> instead of fn(T) -> T
InvariantOver_AsCell(T) == PhantomData(Cell(T))

InvariantOver(T) == PhantomData(Fn(<<T>>, T))

\* Variant: built on the covariant marker instead of the invariant one
InvariantOverLt_AsCovariant(inv) == CovariantOver(Ref(inv, Unit))

InvariantOverLt(inv) == InvariantOver(Ref(inv, Unit))

\* Variant: the encoding of NotSendOrSync
NotSync_AsPtr == PhantomData(PtrConst(Unit))

NotSync == PhantomData(Cell(Unit))

\* Variant: the encoding of NotSync
NotSendOrSync_AsCell == PhantomData(Cell(Unit))

NotSendOrSync == PhantomData(PtrConst(Unit))

TypeAliases == {"Owns", "HasImmPtrTo", "HasMutPtrTo", "CovariantOver",
                "ContravariantOver", "InvariantOver"}

LtAliases == {"CovariantOverLt", "ContraVariantOverLt", "InvariantOverLt"}

RefAliases == {"ImmutablyReferences", "MutablyReferences"}

PlainAliases == {"NotSync", "NotSendOrSync"}

Aliases == TypeAliases \cup LtAliases \cup RefAliases \cup PlainAliases

\* The type a marker field has once its alias is expanded
MarkerType(alias, a, T) ==
  CASE alias = "Owns" -> Owns(T)
    [] alias = "ImmutablyReferences" -> ImmutablyReferences(a, T)
    [] alias = "MutablyReferences" -> MutablyReferences(a, T)
    [] alias = "HasImmPtrTo" -> HasImmPtrTo(T)
    [] alias = "HasMutPtrTo" -> HasMutPtrTo(T)
    [] alias = "CovariantOver" -> CovariantOver(T)
    [] alias = "CovariantOverLt" -> CovariantOverLt(a)
    [] alias = "ContravariantOver" -> ContravariantOver(T)
    [] alias = "ContraVariantOverLt" -> ContraVariantOverLt(a)
    [] alias = "InvariantOver" -> InvariantOver(T)
    [] alias = "InvariantOverLt" -> InvariantOverLt(a)
    [] alias = "NotSync" -> NotSync
    [] alias = "NotSendOrSync" -> NotSendOrSync

(***************************************************************************)
(* Subtyping, derived from the shape of the type.                          *)
(***************************************************************************)
RECURSIVE Subtype(_, _)
Subtype(s, t) ==
  IF s.tag # t.tag \/ Len(s.sub) # Len(t.sub) THEN FALSE
  ELSE CASE s.tag = "Ref" ->
              Outlives(s.lt, t.lt) /\ Subtype(s.sub[1], t.sub[1])
         [] s.tag = "RefMut" ->
              /\ Outlives(s.lt, t.lt)
              /\ Subtype(s.sub[1], t.sub[1]) /\ Subtype(t.sub[1], s.sub[1])
         [] s.tag = "PtrConst" -> Subtype(s.sub[1], t.sub[1])
         [] s.tag = "PtrMut" ->
              Subtype(s.sub[1], t.sub[1]) /\ Subtype(t.sub[1], s.sub[1])
         [] s.tag = "Fn" ->
              /\ Subtype(s.sub[1], t.sub[1])
              /\ \A i \in 2..Len(s.sub) : Subtype(t.sub[i], s.sub[i])
         [] s.tag = "Cell" ->
              Subtype(s.sub[1], t.sub[1]) /\ Subtype(t.sub[1], s.sub[1])
         [] s.tag = "Inspector" -> Outlives(s.lt, t.lt)
         [] OTHER -> \A i \in 1..Len(s.sub) : Subtype(s.sub[i], t.sub[i])

(***************************************************************************)
(* Auto-traits, derived from the shape of the type: a compound type has    *)
(* the trait when all its components have it, except where the language    *)
(* says otherwise (raw pointers, Rc, Cell, references, fn pointers).       *)
(***************************************************************************)
RECURSIVE IsSend(_), IsSync(_)
IsSync(t) ==
  CASE t.tag \in {"PtrConst", "PtrMut", "Rc", "Cell"} -> FALSE
    [] t.tag = "Fn" -> TRUE
    [] OTHER -> \A i \in 1..Len(t.sub) : IsSync(t.sub[i])

IsSend(t) ==
  CASE t.tag \in {"PtrConst", "PtrMut", "Rc"} -> FALSE
    [] t.tag = "Fn" -> TRUE
    [] t.tag = "Ref" -> IsSync(t.sub[1])
    [] OTHER -> \A i \in 1..Len(t.sub) : IsSend(t.sub[i])

(***************************************************************************)
(* Drop check: the lifetimes that must strictly outlive a value of type t  *)
(* because dropping it may run a destructor that reads data borrowed for   *)
(* that lifetime.  Owned components are followed (PhantomData<T> counts as *)
(* owning a T); references, raw pointers and fn pointers own nothing.      *)
(* The check runs only for a value that has drop glue, which every World   *)
(* has through days: Box<u8>.                                              *)
(***************************************************************************)
RECURSIVE DropLive(_)
DropLive(t) ==
  CASE t.tag = "Inspector" -> {t.lt}
    [] t.tag \in {"Ref", "RefMut", "PtrConst", "PtrMut", "Fn"} -> {}
    [] OTHER -> UNION {DropLive(t.sub[i]) : i \in 1..Len(t.sub)}

\* Every lifetime a type mentions
RECURSIVE LifetimesOf(_)
LifetimesOf(t) ==
  (IF t.lt = NoLt THEN {} ELSE {t.lt})
    \cup UNION {LifetimesOf(t.sub[i]) : i \in 1..Len(t.sub)}

(***************************************************************************)
(* Layout: size and alignment in bytes.                                    *)
(***************************************************************************)
Max(a, b) == IF a >= b THEN a ELSE b

RoundUp(n, align) == ((n + align - 1) \div align) * align

RECURSIVE SizeOf(_), AlignOf(_), SumSizes(_, _), MaxAlign(_, _)
AlignOf(t) ==
  CASE t.tag \in {"Unit", "U8", "PhantomData"} -> 1
    [] t.tag \in {"Ref", "RefMut", "PtrConst", "PtrMut", "Fn", "Rc", "Box"}
         -> PtrSize
    [] OTHER -> MaxAlign(t.sub, Len(t.sub))

SizeOf(t) ==
  CASE t.tag \in {"Unit", "PhantomData"} -> 0
    [] t.tag = "U8" -> 1
    [] t.tag \in {"Ref", "RefMut", "PtrConst", "PtrMut", "Fn", "Rc", "Box"}
         -> PtrSize
    [] OTHER -> RoundUp(SumSizes(t.sub, Len(t.sub)), AlignOf(t))

SumSizes(fields, n) ==
  IF n = 0 THEN 0 ELSE SizeOf(fields[n]) + SumSizes(fields, n - 1)

MaxAlign(fields, n) ==
  IF n = 0 THEN 1 ELSE Max(AlignOf(fields[n]), MaxAlign(fields, n - 1))

(***************************************************************************)
(* A downstream crate: one container struct with some ordinary fields and  *)
(* at most one marker field, and the last use the compiler judged.         *)
(***************************************************************************)
VARIABLES decl, last
vars == <<decl, last>>

\* Type arguments a downstream crate instantiates the markers with
TypeArgs ==
  {U8, Rc(U8), Cell(U8)}
    \cup {Ref(a, Unit) : a \in Lifetimes}
    \cup {Inspector(a) : a \in Lifetimes}
    \cup {Fn(<<Ref(a, Unit)>>, Unit) : a \in Lifetimes}

\* The ordinary fields of the container
OtherFields ==
  {<<>>, <<U8, Ref(NumLifetimes, U8)>>, <<Rc(U8)>>, <<Cell(U8)>>,
   <<Inspector(NumLifetimes)>>}

\* Lifetime and type arguments an alias takes
LtArgs(alias) ==
  IF alias \in LtAliases \cup RefAliases THEN Lifetimes ELSE {NoLt}

TyArgs(alias) ==
  IF alias \in TypeAliases \cup RefAliases THEN TypeArgs ELSE {Unit}

Fields(d) ==
  IF d.alias = "NoMarker" THEN d.others
  ELSE d.others \o <<MarkerType(d.alias, d.lt, d.ty)>>

Container(d) == Struct(Fields(d))

WithoutMarker(d) == Struct(d.others)

NoCheck == [op |-> "none", lt |-> NoLt, ty |-> Unit, ok |-> TRUE, size |-> 0]

Init ==
  /\ decl = [alias |-> "NoMarker", lt |-> NoLt, ty |-> Unit, others |-> <<>>]
  /\ last = NoCheck

\* Write the container with marker `alias`<a, T> next to the fields `others`
Declare(alias, a, T, others) ==
  /\ decl' = [alias |-> alias, lt |-> a, ty |-> T, others |-> others]
  /\ last' = NoCheck

\* Pass the container where the same container with arguments <a2, T2>
\* is expected
Coerce(a2, T2) ==
  /\ decl.alias \in Aliases
  /\ a2 \in LtArgs(decl.alias)
  /\ T2 \in TyArgs(decl.alias)
  /\ last' = [op |-> "coerce", lt |-> a2, ty |-> T2, size |-> 0,
              ok |-> Subtype(Container(decl),
                             Container([decl EXCEPT !.lt = a2, !.ty = T2]))]
  /\ UNCHANGED decl

\* Move the container to another thread
Transfer ==
  /\ last' = [NoCheck EXCEPT !.op = "send", !.ok = IsSend(Container(decl))]
  /\ UNCHANGED decl

\* Share a reference to the container with another thread
Share ==
  /\ last' = [NoCheck EXCEPT !.op = "sync", !.ok = IsSync(Container(decl))]
  /\ UNCHANGED decl

\* Does the drop check accept dropping a value of type t at the end of
\* `scope`, where data borrowed for `scope` is dropped as well?
DropOk(t, scope) == \A a \in DropLive(t) : a > scope

\* fn main of the Drop Check example: a World around the container goes out
\* of scope, world.days being borrowed for `scope`
DropAt(scope) ==
  /\ \A a \in LifetimesOf(Container(decl)) : Outlives(a, scope)
  /\ last' = [NoCheck EXCEPT !.op = "drop", !.lt = scope,
                !.ok = DropOk(World(Fields(decl)), scope)]
  /\ UNCHANGED decl

\* Take size_of the container
Measure ==
  /\ last' = [NoCheck EXCEPT !.op = "size",
                !.size = SizeOf(Container(decl)),
                !.ok = (SizeOf(Container(decl)) = SizeOf(WithoutMarker(decl)))]
  /\ UNCHANGED decl

Next ==
  \/ \E alias \in Aliases, others \in OtherFields :
       \E a \in LtArgs(alias), T \in TyArgs(alias) :
         Declare(alias, a, T, others)
  \/ \E a2 \in Lifetimes \cup {NoLt}, T2 \in TypeArgs \cup {Unit} :
       Coerce(a2, T2)
  \/ Transfer
  \/ Share
  \/ \E scope \in Lifetimes : DropAt(scope)
  \/ Measure

Spec == Init /\ [][Next]_vars

TypeOK ==
  /\ decl.alias \in Aliases \cup {"NoMarker"}
  /\ decl.others \in OtherFields
  /\ last.op \in {"none", "coerce", "send", "sync", "drop", "size"}
  /\ last.ok \in BOOLEAN

(***************************************************************************)
(* Properties of the catalog.                                              *)
(***************************************************************************)
\* T1 is a proper subtype of T2 (T1 is the longer-lived variant)
StrictSub(T1, T2) == Subtype(T1, T2) /\ ~Subtype(T2, T1)

Coerced(aliases) == last.op = "coerce" /\ decl.alias \in aliases

Judged(op, aliases) == last.op = op /\ decl.alias \in aliases

\* C1: CovariantOverLt<'co> is covariant over 'co: the container with the
\* longer lifetime is accepted where the one with the shorter lifetime is
\* expected, and the reverse substitution is rejected.
C1_CovariantOverLtIsCovariant ==
  (Coerced({"CovariantOverLt"}) /\ decl.lt # last.lt)
    => (last.ok <=> Outlives(decl.lt, last.lt))

\* C2 (as stated): adding a HasImmPtrTo<T> field to a container whose other
\* fields are Send and Sync leaves the container Send and Sync.
C2_HasImmPtrToKeepsAutoTraits ==
  /\ (Judged("send", {"HasImmPtrTo"}) /\ IsSend(WithoutMarker(decl)))
       => last.ok
  /\ (Judged("sync", {"HasImmPtrTo"}) /\ IsSync(WithoutMarker(decl)))
       => last.ok

\* C2 (amended): a container with a HasImmPtrTo<T> field is neither Send
\* nor Sync, for every T and whatever its other fields are.
C2_HasImmPtrToStripsAutoTraits ==
  (Judged("send", {"HasImmPtrTo"}) \/ Judged("sync", {"HasImmPtrTo"}))
    => ~last.ok

C2_Witness ==
  /\ Judged("send", {"HasImmPtrTo"})
  /\ decl.ty = U8
  /\ decl.others = <<>>
  /\ ~last.ok

\* C3: Owns<T> and CovariantOver<T> accept the container of a proper subtype
\* of T where the container of T is expected and reject the reverse;
\* ContravariantOver<T> accepts the reverse and rejects the forward
\* direction; InvariantOver<T> accepts only an identical T.
C3_TypeVariance ==
  /\ Coerced({"Owns", "CovariantOver"}) =>
       /\ StrictSub(decl.ty, last.ty) => last.ok
       /\ StrictSub(last.ty, decl.ty) => ~last.ok
  /\ Coerced({"ContravariantOver"}) =>
       /\ StrictSub(last.ty, decl.ty) => last.ok
       /\ StrictSub(decl.ty, last.ty) => ~last.ok
  /\ Coerced({"InvariantOver"}) => (last.ok <=> decl.ty = last.ty)

C3_Witness ==
  /\ Coerced({"ContravariantOver"})
  /\ StrictSub(last.ty, decl.ty)
  /\ last.ok

\* C4: ContraVariantOverLt is contravariant over its lifetime (the container
\* with the shorter lifetime is accepted where the one with the longer is
\* expected, the reverse is rejected); InvariantOverLt is invariant (two
\* different lifetimes are substitutable in neither direction).
C4_LifetimeVariance ==
  /\ (Coerced({"ContraVariantOverLt"}) /\ decl.lt # last.lt)
       => (last.ok <=> Outlives(last.lt, decl.lt))
  /\ (Coerced({"InvariantOverLt"}) /\ decl.lt # last.lt) => ~last.ok

C4_Witness ==
  /\ Coerced({"InvariantOverLt"})
  /\ decl.lt > last.lt
  /\ ~last.ok

\* C5: ImmutablyReferences<'a, T> and HasImmPtrTo<T> are covariant over T,
\* MutablyReferences<'a, T> and HasMutPtrTo<T> are invariant over T, and
\* both reference markers are covariant over 'a.
C5_ReferenceAndPointerVariance ==
  /\ Coerced({"ImmutablyReferences"}) =>
       (last.ok <=> Outlives(decl.lt, last.lt) /\ Subtype(decl.ty, last.ty))
  /\ Coerced({"HasImmPtrTo"}) => (last.ok <=> Subtype(decl.ty, last.ty))
  /\ Coerced({"MutablyReferences"}) =>
       (last.ok <=> Outlives(decl.lt, last.lt) /\ decl.ty = last.ty)
  /\ Coerced({"HasMutPtrTo"}) => (last.ok <=> decl.ty = last.ty)

C5_Witness ==
  /\ Coerced({"HasMutPtrTo"})
  /\ StrictSub(decl.ty, last.ty)
  /\ ~last.ok

\* C6: a container embedding NotSendOrSync or HasMutPtrTo<T> is neither
\* Send nor Sync, for every T and whatever its other fields are.
C6_StripsSendAndSync ==
  \A op \in {"send", "sync"} :
    Judged(op, {"NotSendOrSync", "HasMutPtrTo"}) => ~last.ok

C6_Witness ==
  /\ Judged("send", {"NotSendOrSync"})
  /\ decl.others = <<>>
  /\ ~last.ok

\* C7: a container embedding NotSync is never Sync, and is Send exactly when
\* its other fields are Send.
C7_NotSyncStripsOnlySync ==
  /\ Judged("sync", {"NotSync"}) => ~last.ok
  /\ Judged("send", {"NotSync"}) => (last.ok <=> IsSend(WithoutMarker(decl)))

C7_Witness ==
  /\ Judged("send", {"NotSync"})
  /\ IsSync(WithoutMarker(decl))
  /\ last.ok

\* C8: in the World scenario a container embedding Owns<T> is drop-checked
\* as if it held a T directly, so it is rejected when T's destructor reads
\* data that is dropped together with the World (T = Inspector<'a>, 'a the
\* borrow of world.days); CovariantOver<T>, HasImmPtrTo<T> and
\* HasMutPtrTo<T> add no drop-check obligation to that of the other fields.
C8_OwnershipIsDropChecked ==
  /\ Judged("drop", {"Owns"}) =>
       /\ last.ok <=> DropOk(World(decl.others \o <<decl.ty>>), last.lt)
       /\ decl.ty = Inspector(last.lt) => ~last.ok
  /\ Judged("drop", {"CovariantOver", "HasImmPtrTo", "HasMutPtrTo"}) =>
       (last.ok <=> DropOk(World(decl.others), last.lt))

C8_WitnessNoOwnership ==
  /\ Judged("drop", {"CovariantOver"})
  /\ decl.ty = Inspector(last.lt)
  /\ last.ok

C8_Witness ==
  /\ Judged("drop", {"Owns"})
  /\ decl.ty = Inspector(last.lt)
  /\ DropOk(World(decl.others), last.lt)
  /\ ~last.ok

\* C9: every alias, for every choice of arguments, is an instance of
\* PhantomData of size zero, and a container with the marker field has the
\* size of the same container without it.
C9_MarkersAreZeroSized ==
  Judged("size", Aliases) =>
    /\ MarkerType(decl.alias, decl.lt, decl.ty).tag = "PhantomData"
    /\ SizeOf(MarkerType(decl.alias, decl.lt, decl.ty)) = 0
    /\ last.size = SizeOf(WithoutMarker(decl))

C9_Witness ==
  /\ Judged("size", {"ImmutablyReferences"})
  /\ last.size = 2 * PtrSize

\* C10: embedding CovariantOver<T>, ContravariantOver<T>, InvariantOver<T>,
\* CovariantOverLt, ContraVariantOverLt or InvariantOverLt leaves the
\* container Send (Sync) exactly when its other fields are, for every T;
\* embedding Owns<T> leaves it Send (Sync) only if T is as well.
PureVarianceAliases ==
  {"CovariantOver", "ContravariantOver", "InvariantOver",
   "CovariantOverLt", "ContraVariantOverLt", "InvariantOverLt"}

C10_VarianceMarkersKeepAutoTraits ==
  /\ Judged("send", PureVarianceAliases) =>
       (last.ok <=> IsSend(WithoutMarker(decl)))
  /\ Judged("sync", PureVarianceAliases) =>
       (last.ok <=> IsSync(WithoutMarker(decl)))
  /\ Judged("send", {"Owns"}) =>
       (last.ok <=> IsSend(WithoutMarker(decl)) /\ IsSend(decl.ty))
  /\ Judged("sync", {"Owns"}) =>
       (last.ok <=> IsSync(WithoutMarker(decl)) /\ IsSync(decl.ty))

C10_Witness ==
  /\ Judged("sync", {"InvariantOver"})
  /\ decl.ty = Rc(U8)
  /\ last.ok

====
